---- MODULE Spec2Model ----
(***************************************************************************)
(* Model of the two algorithmic notebooks of the repository:               *)
(*   - 8-puzzle-problem.ipynb: Problem, Node, breadth_first_search,        *)
(*     iterative_deepening_search, astar_search, manhattan_distance        *)
(*   - the N-Queens notebook: NQueens.min_conflicts_solver and             *)
(*     NQueens.backtrack with its MRV / LCV helpers                        *)
(* Python tuples and lists are 0-indexed; they are modelled as sequences   *)
(* and every position is kept 0-based, as in the code, through At.         *)
(***************************************************************************)
EXTENDS Integers, Sequences, FiniteSets, TLC

VARIABLES
    alg,        \* the function that was called
    problem,    \* the Problem instance: [start, goal]
    heuristic,  \* the heuristic argument of astar_search
    node,       \* local `node` of breadth_first_search / astar_search
    frontier,   \* local `frontier` (deque for BFS, heap list for A*)
    explored,   \* local `explored` set of states
    depth,      \* loop variable of iterative_deepening_search
    estimate,   \* the value a call of Problem.h returned
    taken,      \* the nodes the running search took from its frontier, in order
    runs,       \* the calls of the test cells that have finished
    N,          \* NQueens.N
    arg,        \* the assignment the outermost backtrack call was given
    stack,      \* call stack of NQueens.backtrack
    heap,       \* the dict objects the backtrack frames refer to
    current,    \* NQueens.assignment, `current` in min_conflicts_solver
    cache,      \* NQueens.cache
    n_iter,     \* loop variable of min_conflicts_solver
    max_steps,  \* argument of min_conflicts_solver
    result,     \* the value the running solver returned
    pc          \* position of the running solver

vars == <<alg, problem, heuristic, node, frontier, explored, depth, estimate,
          taken, runs, N, arg, stack, heap, current, cache, n_iter, max_steps, result, pc>>

searchVars == <<problem, heuristic, node, frontier, explored, depth, estimate,
                taken, runs>>
cspVars == <<N, arg, stack, heap, current, cache, n_iter, max_steps>>

(***************************************************************************)
(* Bounds of the model.                                                    *)
(***************************************************************************)
\* starts are drawn from the states at most MaxScramble moves from the goal
MaxScramble == 3
\* backtrack runs on boards of 1..MaxQueens rows
MaxQueens == 12
\* depth_limited_search is called with the limits 0..MaxLimit
MaxLimit == 5
\* the MRV / LCV helpers are called on boards of 1..MaxPick rows
MaxPick == 4
\* min_conflicts_solver runs on boards of 1..MaxBoard rows
MaxBoard == 4
\* the max_steps given to min_conflicts_solver
MaxSteps == 3

(***************************************************************************)
(* Python values.                                                          *)
(***************************************************************************)
None == "None"

\* the results a solver can hand back: a list of nodes, or one of the
\* strings 'failure' / 'cutoff', or None when a function falls off its end
Pending == [kind |-> "pending", path |-> <<>>]
Failure == [kind |-> "failure", path |-> <<>>]
Cutoff == [kind |-> "cutoff", path |-> <<>>]
ReturnedNone == [kind |-> "None", path |-> <<>>]
PathResult(p) == [kind |-> "path", path |-> p]

\* seq[i] of a 0-indexed Python sequence
At(seq, i) == seq[i + 1]

\* seq.index(el): position of the first occurrence
Index(seq, el) ==
    (CHOOSE i \in 1..Len(seq) :
        seq[i] = el /\ \A j \in 1..(i - 1) : seq[j] # el) - 1

Abs(x) == IF x < 0 THEN -x ELSE x

RECURSIVE SumSeq(_)
SumSeq(s) == IF s = <<>> THEN 0 ELSE Head(s) + SumSeq(Tail(s))

(***************************************************************************)
(* class Problem                                                           *)
(***************************************************************************)
\* actions that treats the board as one row of nine cells: only the moves
\* off the two ends and off the top and bottom rows are removed
actions_one_row(state) ==
    LET ix == Index(state, 0)
        gone(a) == \/ a = "left" /\ ix = 0
                   \/ a = "up" /\ ix < 3
                   \/ a = "right" /\ ix = 8
                   \/ a = "down" /\ ix > 5
    IN SelectSeq(<<"left", "right", "up", "down">>, LAMBDA a : ~gone(a))

\* Problem.actions: the blank's moves, in the order of the list the code
\* starts from, with the moves off the board removed
actions(state) ==
    LET ix == Index(state, 0)
        removed(a) == \/ a = "left" /\ ix % 3 = 0
                      \/ a = "up" /\ ix < 3
                      \/ a = "right" /\ ix % 3 = 2
                      \/ a = "down" /\ ix > 5
    IN SelectSeq(<<"left", "right", "up", "down">>, LAMBDA a : ~removed(a))

change(action) ==
    CASE action = "left" -> -1
      [] action = "right" -> 1
      [] action = "up" -> -3
      [] action = "down" -> 3

\* Problem.result: swap the blank with the tile at blank_ix + change[action]
result_of(state, action) ==
    LET blank_ix == Index(state, 0)
        adjacent_ix == blank_ix + change(action)
    IN [i \in 1..Len(state) |->
           IF i = blank_ix + 1 THEN At(state, adjacent_ix)
           ELSE IF i = adjacent_ix + 1 THEN At(state, blank_ix)
           ELSE state[i]]

is_goal_state(p, state) == p.goal = state

(***************************************************************************)
(* Heuristic functions.  get_2d_index, dist and manhattan_distance are the *)
(* notebook's; the others are caller-supplied arguments of astar_search.   *)
(***************************************************************************)
get_2d_index(i) ==
    IF i <= 2 THEN <<0, i>>
    ELSE IF i <= 5 THEN <<1, i - 3>>
    ELSE <<2, i - 6>>

\* dist that measures the distance between the rows only
dist_rows_only(ix1, ix2) ==
    LET a == get_2d_index(ix1)
        b == get_2d_index(ix2)
    IN Abs(b[1] - a[1])

dist(ix1, ix2) ==
    LET a == get_2d_index(ix1)
        b == get_2d_index(ix2)
    IN Abs(b[1] - a[1]) + Abs(b[2] - a[2])

\* sums over every element of the state, the blank included
manhattan_distance(state, goal) ==
    SumSeq([i \in 1..Len(state) |-> dist(i - 1, Index(goal, state[i]))])

\* a caller's heuristic that is 0 everywhere
zero_heuristic(state, goal) == 0

\* a caller's heuristic: the Manhattan distance summed over the eight tiles
\* only.  One move shifts one tile by one square, so it never exceeds the
\* number of moves still needed (admissible).
tile_manhattan(state, goal) ==
    SumSeq([i \in 1..Len(state) |->
               IF state[i] = 0 THEN 0 ELSE dist(i - 1, Index(goal, state[i]))])

\* a caller's heuristic: tile_manhattan on the states whose top-left square
\* holds tile 2, and 0 on all others.  It is at most tile_manhattan, hence
\* admissible, but not consistent.
gated_manhattan(state, goal) ==
    IF At(state, 0) = 2 THEN tile_manhattan(state, goal) ELSE 0

\* Problem.h
h(p, state, func) ==
    CASE func = None ->
           Cardinality({i \in 0..(Len(state) - 1) : At(state, i) # At(p.goal, i)})
      [] func = "manhattan_distance" -> manhattan_distance(state, p.goal)
      [] func = "zero" -> zero_heuristic(state, p.goal)
      [] func = "tile_manhattan" -> tile_manhattan(state, p.goal)
      [] func = "gated_manhattan" -> gated_manhattan(state, p.goal)

(***************************************************************************)
(* class Node.  parent is <<>> for None and <<parent node>> otherwise.     *)
(***************************************************************************)
Node(state, parent, action, path_cost) ==
    [state |-> state, parent |-> parent, action |-> action,
     path_cost |-> path_cost,
     depth |-> IF parent # <<>> THEN parent[1].depth + 1 ELSE 0,
     f |-> path_cost]

child_node(n, p, action) ==
    Node(result_of(n.state, action), <<n>>, action, n.path_cost + 1)

\* Node.__eq__
NodeEq(a, b) == a.state = b.state

\* Node.__lt__ with the comparison turned round
NodeLt_reversed(a, b) == a.f > b.f

\* Node.__lt__
NodeLt(a, b) == a.f < b.f

\* `child in frontier`: membership by Node.__eq__
InList(n, list) == \E i \in 1..Len(list) : NodeEq(list[i], n)

\* solution(node) without the `res.append(node)` after the loop: the root
\* is left out of the path
RECURSIVE solution_without_root(_)
solution_without_root(n) ==
    IF n.parent # <<>> THEN Append(solution_without_root(n.parent[1]), n) ELSE <<>>

\* solution(node): the nodes from the root to node
RECURSIVE solution(_)
solution(n) ==
    IF n.parent # <<>> THEN Append(solution(n.parent[1]), n) ELSE <<n>>

(***************************************************************************)
(* breadth_first_search                                                    *)
(***************************************************************************)
\* a depth bound of 12 in place of 10
MaxDepth_deeper == 10 + 2

\* a depth bound of 6 in place of 10
MaxDepth_shallow == 10 - 4

MaxDepth == 10

\* what is kept of a node taken from the frontier by popleft / heappop
Taken(n) == [state |-> n.state, depth |-> n.depth]

\* frontier.pop() in place of popleft(): the newest node is taken first
popleft_as_pop(fr) == [item |-> fr[Len(fr)], rest |-> SubSeq(fr, 1, Len(fr) - 1)]

\* frontier.popleft()
popleft(fr) == [item |-> Head(fr), rest |-> Tail(fr)]

\* the for loop over problem.actions(node.state), from the action list acts
RECURSIVE BfsChildren(_, _, _, _, _)
BfsChildren(p, n, acts, fr, ex) ==
    IF acts = <<>> THEN [frontier |-> fr, result |-> Pending]
    ELSE LET child == child_node(n, p, Head(acts))
         IN IF child.state \notin ex /\ ~InList(child, fr)
            THEN IF is_goal_state(p, child.state)
                 THEN [frontier |-> fr, result |-> PathResult(solution(child))]
                 ELSE BfsChildren(p, n, Tail(acts), Append(fr, child), ex)
            ELSE BfsChildren(p, n, Tail(acts), fr, ex)

\* lines 111-116: the root node and the goal test on it
BfsStart ==
    /\ pc = "bfs_start"
    /\ LET root == Node(problem.start, <<>>, None, 0)
       IN /\ node' = root
          /\ IF is_goal_state(problem, root.state)
             THEN /\ result' = PathResult(solution(root))
                  /\ pc' = "done"
                  /\ UNCHANGED <<frontier, explored>>
             ELSE /\ frontier' = <<root>>
                  /\ explored' = {}
                  /\ pc' = "bfs_loop"
                  /\ UNCHANGED result
    /\ UNCHANGED <<alg, estimate, problem, heuristic, depth, taken, runs>>
    /\ UNCHANGED cspVars

\* one iteration of `while frontier`
BfsLoop ==
    /\ pc = "bfs_loop"
    /\ frontier # <<>>
    /\ LET popped == popleft(frontier)
           n == popped.item
           ex == explored \cup {n.state}
           out == IF n.depth <= MaxDepth
                  THEN BfsChildren(problem, n, actions(n.state), popped.rest, ex)
                  ELSE [frontier |-> popped.rest, result |-> Pending]
       IN /\ node' = n
          /\ explored' = ex
          /\ frontier' = out.frontier
          /\ result' = out.result
          /\ pc' = IF out.result.kind = "path" THEN "done" ELSE "bfs_loop"
          /\ taken' = Append(taken, Taken(n))
    /\ UNCHANGED <<alg, estimate, problem, heuristic, depth, runs>>
    /\ UNCHANGED cspVars

\* the frontier ran empty: return 'failure'
BfsFail ==
    /\ pc = "bfs_loop"
    /\ frontier = <<>>
    /\ result' = Failure
    /\ pc' = "done"
    /\ UNCHANGED <<alg, estimate, problem, heuristic, node, frontier, explored, depth,
                   taken, runs>>
    /\ UNCHANGED cspVars

(***************************************************************************)
(* iterative_deepening_search                                              *)
(***************************************************************************)
\* range(10) of the outer loop
IdsLimits == 10

RECURSIVE recursive_dls(_, _, _), DlsLoop(_, _, _, _, _)
recursive_dls(n, p, limit) ==
    IF is_goal_state(p, n.state) THEN PathResult(solution(n))
    ELSE IF limit = 0 THEN Cutoff
    ELSE DlsLoop(n, p, limit, actions(n.state), FALSE)

\* the for loop of recursive_dls over the remaining actions acts
DlsLoop(n, p, limit, acts, cutoff_occured) ==
    IF acts = <<>>
    THEN IF cutoff_occured THEN Cutoff ELSE Failure
    ELSE LET r == recursive_dls(child_node(n, p, Head(acts)), p, limit - 1)
         IN IF r.kind = "cutoff" THEN DlsLoop(n, p, limit, Tail(acts), TRUE)
            ELSE IF r.kind # "failure" THEN r
            ELSE DlsLoop(n, p, limit, Tail(acts), cutoff_occured)

\* depth_limited_search as it runs when the limits are tried from the largest
\* (9) down to 0
depth_limited_search_deepest_first(p, limit) ==
    recursive_dls(Node(p.start, <<>>, None, 0), p, 9 - limit)

\* depth_limited_search that hands recursive_dls a limit smaller by one
depth_limited_search_one_less(p, limit) ==
    recursive_dls(Node(p.start, <<>>, None, 0), p, IF limit > 0 THEN limit - 1 ELSE 0)

depth_limited_search(p, limit) ==
    recursive_dls(Node(p.start, <<>>, None, 0), p, limit)

\* a call depth_limited_search(problem, depth)
DlsCall ==
    /\ pc = "dls_call"
    /\ result' = depth_limited_search(problem, depth)
    /\ pc' = "done"
    /\ UNCHANGED <<alg, estimate, problem, heuristic, node, frontier, explored, depth,
                   taken, runs>>
    /\ UNCHANGED cspVars

\* one iteration of `for depth in range(10)`
IdsIter ==
    /\ pc = "ids_loop"
    /\ depth < IdsLimits
    /\ LET r == depth_limited_search(problem, depth)
       IN IF r.kind # "cutoff"
          THEN /\ result' = r
               /\ pc' = "done"
               /\ UNCHANGED depth
          ELSE /\ depth' = depth + 1
               /\ UNCHANGED <<result, pc>>
    /\ UNCHANGED <<alg, estimate, problem, heuristic, node, frontier, explored,
                   taken, runs>>
    /\ UNCHANGED cspVars

\* the loop ended without a return: the function returns None
IdsFallThrough ==
    /\ pc = "ids_loop"
    /\ depth = IdsLimits
    /\ result' = ReturnedNone
    /\ pc' = "done"
    /\ UNCHANGED <<alg, estimate, problem, heuristic, node, frontier, explored, depth,
                   taken, runs>>
    /\ UNCHANGED cspVars

(***************************************************************************)
(* heapq on a Python list, ordered by Node.__lt__                          *)
(***************************************************************************)
\* list[i] = x
SetAt(list, i, x) == [list EXCEPT ![i + 1] = x]

RECURSIVE siftdown_loop(_, _, _, _)
siftdown_loop(hp, startpos, pos, newitem) ==
    IF pos > startpos
    THEN LET parentpos == (pos - 1) \div 2
             parent == At(hp, parentpos)
         IN IF NodeLt(newitem, parent)
            THEN siftdown_loop(SetAt(hp, pos, parent), startpos, parentpos, newitem)
            ELSE SetAt(hp, pos, newitem)
    ELSE SetAt(hp, pos, newitem)

\* heapq._siftdown
siftdown(hp, startpos, pos) == siftdown_loop(hp, startpos, pos, At(hp, pos))

RECURSIVE siftup_loop(_, _, _, _)
siftup_loop(hp, pos, childpos, newitem) ==
    IF childpos < Len(hp)
    THEN LET rightpos == childpos + 1
             c == IF rightpos < Len(hp) /\ ~NodeLt(At(hp, childpos), At(hp, rightpos))
                  THEN rightpos ELSE childpos
         IN siftup_loop(SetAt(hp, pos, At(hp, c)), c, 2 * c + 1, newitem)
    ELSE [heap |-> SetAt(hp, pos, newitem), pos |-> pos]

\* heapq._siftup
siftup(hp, pos) ==
    LET r == siftup_loop(hp, pos, 2 * pos + 1, At(hp, pos))
    IN siftdown(r.heap, pos, r.pos)

\* heapq.heappush
heappush(hp, item) == siftdown(Append(hp, item), 0, Len(hp))

\* heapq.heappop
heappop(hp) ==
    LET lastelt == hp[Len(hp)]
        rest == SubSeq(hp, 1, Len(hp) - 1)
    IN IF rest # <<>>
       THEN [item |-> rest[1], rest |-> siftup(SetAt(rest, 0, lastelt), 0)]
       ELSE [item |-> lastelt, rest |-> rest]

\* list.remove(el): drops the first element equal (Node.__eq__) to el
list_remove(list, el) ==
    LET i == CHOOSE i \in 1..Len(list) :
                 NodeEq(list[i], el) /\ \A j \in 1..(i - 1) : ~NodeEq(list[j], el)
    IN SubSeq(list, 1, i - 1) \o SubSeq(list, i + 1, Len(list))

(***************************************************************************)
(* astar_search                                                            *)
(***************************************************************************)
\* the replacement loop without frontier.remove(el): the cheaper child is
\* pushed and the entry it should replace stays
RECURSIVE ReplaceScan_keep_old(_, _, _)
ReplaceScan_keep_old(fr, child, i) ==
    LET hits == {k \in i..(Len(fr) - 1) :
                    NodeEq(At(fr, k), child) /\ child.f < At(fr, k).f}
    IN IF hits = {} THEN fr
       ELSE LET k == CHOOSE k \in hits : \A m \in hits : k <= m
            IN ReplaceScan_keep_old(heappush(fr, child), child, k + 1)

\* `for el in frontier` of lines 213-216, from list position i: the list
\* iterator holds a position, and the list changes under it.  The scan is
\* taken to the next position k whose element is replaced and goes on behind it.
RECURSIVE ReplaceScan(_, _, _)
ReplaceScan(fr, child, i) ==
    LET hits == {k \in i..(Len(fr) - 1) :
                    NodeEq(At(fr, k), child) /\ child.f < At(fr, k).f}
    IN IF hits = {} THEN fr
       ELSE LET k == CHOOSE k \in hits : \A m \in hits : k <= m
            IN ReplaceScan(heappush(list_remove(fr, At(fr, k)), child), child, k + 1)

\* the child of line 207 with the f of line 208
AstarChild(p, func, n, action) ==
    LET c == child_node(n, p, action)
    IN [c EXCEPT !.f = c.path_cost + h(p, c.state, func)]

\* lines 209-216 without the test `child.state not in explored`
AstarInsert_ignoring_explored(fr, ex, child) ==
    IF ~InList(child, fr) THEN heappush(fr, child)
    ELSE ReplaceScan(fr, child, 0)

\* what one child does to the frontier (lines 209-216)
AstarInsert(fr, ex, child) ==
    IF child.state \notin ex /\ ~InList(child, fr) THEN heappush(fr, child)
    ELSE IF InList(child, fr) THEN ReplaceScan(fr, child, 0)
    ELSE fr

\* the for loop over problem.actions(node.state), from the action list acts
RECURSIVE AstarChildren(_, _, _, _, _, _)
AstarChildren(p, func, n, acts, fr, ex) ==
    IF acts = <<>> THEN fr
    ELSE AstarChildren(p, func, n, Tail(acts),
                       AstarInsert(fr, ex, AstarChild(p, func, n, Head(acts))), ex)

\* lines 192-198: the root node, whose path_cost is set to h(start)
AstarStart ==
    /\ pc = "astar_start"
    /\ LET root == [Node(problem.start, <<>>, None, 0) EXCEPT
                       !.path_cost = 0 + h(problem, problem.start, heuristic)]
       IN /\ node' = root
          /\ IF is_goal_state(problem, root.state)
             THEN /\ result' = PathResult(solution(root))
                  /\ pc' = "done"
                  /\ UNCHANGED <<frontier, explored>>
             ELSE /\ frontier' = heappush(<<>>, root)
                  /\ explored' = {}
                  /\ pc' = "astar_loop"
                  /\ UNCHANGED result
    /\ UNCHANGED <<alg, estimate, problem, heuristic, depth, taken, runs>>
    /\ UNCHANGED cspVars

\* one iteration of `while frontier`
AstarLoop ==
    /\ pc = "astar_loop"
    /\ frontier # <<>>
    /\ LET popped == heappop(frontier)
           n == popped.item
       IN /\ node' = n
          /\ taken' = Append(taken, Taken(n))
          /\ IF is_goal_state(problem, n.state)
             THEN /\ result' = PathResult(solution(n))
                  /\ pc' = "done"
                  /\ frontier' = popped.rest
                  /\ UNCHANGED explored
             ELSE /\ explored' = explored \cup {n.state}
                  /\ frontier' =
                        IF n.depth <= MaxDepth
                        THEN AstarChildren(problem, heuristic, n, actions(n.state),
                                           popped.rest, explored \cup {n.state})
                        ELSE popped.rest
                  /\ UNCHANGED <<result, pc>>
    /\ UNCHANGED <<alg, estimate, problem, heuristic, depth, runs>>
    /\ UNCHANGED cspVars

\* the frontier ran empty: return 'failure'
AstarFail ==
    /\ pc = "astar_loop"
    /\ frontier = <<>>
    /\ result' = Failure
    /\ pc' = "done"
    /\ UNCHANGED <<alg, estimate, problem, heuristic, node, frontier, explored, depth,
                   taken, runs>>
    /\ UNCHANGED cspVars

(***************************************************************************)
(* class NQueens.  A dict is a function from its keys to its values; the   *)
(* order of its items does not reach any result.                           *)
(***************************************************************************)
EmptyDict == <<>>

\* d[k] = v
DictSet(d, k, v) == [x \in DOMAIN d \cup {k} |-> IF x = k THEN v ELSE d[x]]

\* d.pop(k, None)
DictPop(d, k) == [x \in DOMAIN d \ {k} |-> d[x]]

\* range(n) as a list
Range(n) == [i \in 1..n |-> i - 1]

is_complete(n, assignment) == Cardinality(DOMAIN assignment) = n

\* is_conflict without the diagonal test
is_conflict_no_diagonal(x1, x2, y1, y2) == x1 = x2 \/ y1 = y2

is_conflict(x1, x2, y1, y2) ==
    LET in_same_row == x1 = x2
        in_same_col == y1 = y2
        in_same_diagonal == Abs(x1 - x2) = Abs(y1 - y2)
    IN in_same_row \/ in_same_col \/ in_same_diagonal

\* is_consistent looking only at the rows next to var
is_consistent_adjacent_rows(var, val, assignment) ==
    \A k \in DOMAIN assignment :
        ~(k # var /\ Abs(k - var) = 1 /\ (assignment[k] = val \/ Abs(assignment[k] - val) = 1))

\* is_consistent looking only at the variables of lower id than var
is_consistent_lower_rows(var, val, assignment) ==
    \A k \in DOMAIN assignment :
        ~(k < var /\ is_conflict(k, var, assignment[k], val))

is_consistent(var, val, assignment) ==
    \A k \in DOMAIN assignment :
        ~(k # var /\ is_conflict(k, var, assignment[k], val))

n_conflicts(var, val, assignment) ==
    Cardinality({k \in DOMAIN assignment :
                    k # var /\ is_conflict(var, k, val, assignment[k])})

\* the variables of the list conflicted_vars returns
conflicted_vars(assignment) ==
    {k \in DOMAIN assignment : ~is_consistent(k, assignment[k], assignment)}

\* is_solution without the test for conflicted variables
is_solution_complete_only(n, assignment) == Cardinality(DOMAIN assignment) = n

is_solution(n, assignment) ==
    is_complete(n, assignment) /\ Cardinality(conflicted_vars(assignment)) = 0

(***************************************************************************)
(* NQueens.backtrack and its helpers                                       *)
(***************************************************************************)
remaining_legal_values(n, var, assignment) ==
    SelectSeq(Range(n), LAMBDA val : is_consistent(var, val, assignment))

\* the loop of select_unassigned_variable with the comparison turned round:
\* the variable with the most remaining values wins
RECURSIVE MrvLoop_most_values(_, _, _)
MrvLoop_most_values(unassigned, i, best) ==
    IF i > Len(unassigned) THEN best
    ELSE MrvLoop_most_values(unassigned, i + 1,
                 IF Len(unassigned[i].values) >= Len(best.values)
                 THEN unassigned[i] ELSE best)

\* the loop of select_unassigned_variable over unassigned[i..]
RECURSIVE MrvLoop(_, _, _)
MrvLoop(unassigned, i, best) ==
    IF i > Len(unassigned) THEN best
    ELSE MrvLoop(unassigned, i + 1,
                 IF Len(unassigned[i].values) <= Len(best.values)
                 THEN unassigned[i] ELSE best)

select_unassigned_variable(n, assignment) ==
    LET free == SelectSeq(Range(n), LAMBDA var : var \notin DOMAIN assignment)
        unassigned == [i \in 1..Len(free) |->
                          [var |-> free[i],
                           values |-> remaining_legal_values(n, free[i], assignment)]]
    IN MrvLoop(unassigned, 2, unassigned[1])

n_choices_ruled_out(n, var, val, neighbor, assignment) ==
    LET legal_values == remaining_legal_values(n, neighbor, assignment)
    IN Cardinality({i \in 1..Len(legal_values) :
                       is_conflict(var, neighbor, val, legal_values[i])})

\* sorted(result, key=lambda x: x[1]): stable, so pairs with equal counts
\* keep their order
RECURSIVE SortedByCount(_)
SortedByCount(list) ==
    IF list = <<>> THEN <<>>
    ELSE LET x == list[Len(list)]
             front == SortedByCount(SubSeq(list, 1, Len(list) - 1))
             before == SelectSeq(front, LAMBDA y : y[2] <= x[2])
             after == SelectSeq(front, LAMBDA y : y[2] > x[2])
         IN before \o <<x>> \o after

order_domain_values(n, var, values, assignment) ==
    LET neighbors ==
            IF (var - 1) \in DOMAIN assignment THEN <<var + 1>>
            ELSE IF (var + 1) \in DOMAIN assignment THEN <<var - 1>>
            ELSE <<var - 1, var + 1>>
        n_ruled_out(val) ==
            SumSeq([i \in 1..Len(neighbors) |->
                       n_choices_ruled_out(n, var, val, neighbors[i], assignment)])
        res == [i \in 1..Len(values) |-> <<values[i], n_ruled_out(values[i])>>]
        ordered == SortedByCount(res)
    IN [i \in 1..Len(ordered) |-> ordered[i][1]]

\* NQueens.inference
inference(var, value) == EmptyDict

\* a merge that keeps the inferences only and drops the assignment
Merge_inferences_only(a, b) == b

\* {**assignment, **inferences}
Merge(a, b) == [x \in DOMAIN a \cup DOMAIN b |-> IF x \in DOMAIN b THEN b[x] ELSE a[x]]

\* an activation of backtrack: `assignment` names the dict object the
\* local variable is bound to, entry is that dict as the call received it
Frame(ref, dict) ==
    [assignment |-> ref, entry |-> dict, var |-> -1, values |-> <<>>, i |-> 1,
     inferences |-> "unbound", at |-> "enter"]

Top == stack[Len(stack)]
Pop == SubSeq(stack, 1, Len(stack) - 1)
Returning == result.kind # "pending"
AfterReturn == IF Len(stack) = 1 THEN "done" ELSE "backtrack"

\* lines 227-229: the activation starts; a complete assignment is returned
BtEnter ==
    /\ pc = "backtrack"
    /\ ~Returning
    /\ Top.at = "enter"
    /\ LET assignment == heap[Top.assignment]
       IN IF is_complete(N, assignment)
          THEN /\ result' = [kind |-> "assignment", path |-> <<>>,
                             assignment |-> assignment]
               /\ stack' = Pop
               /\ pc' = AfterReturn
          ELSE LET sel == select_unassigned_variable(N, assignment)
               IN /\ stack' = [stack EXCEPT ![Len(stack)] =
                                 [@ EXCEPT !.var = sel.var,
                                           !.values = order_domain_values(
                                               N, sel.var, sel.values, assignment),
                                           !.i = 1,
                                           !.at = "loop"]]
                  /\ UNCHANGED <<result, pc>>
    /\ UNCHANGED <<N, arg, heap, current, cache, n_iter, max_steps, alg>>
    /\ UNCHANGED searchVars

\* lines 230-239 for the next value of the loop: a consistent value is
\* committed and backtrack is called on the merged dict; otherwise lines
\* 243-245 run at once
BtTry ==
    /\ pc = "backtrack"
    /\ ~Returning
    /\ Top.at = "loop"
    /\ Top.i <= Len(Top.values)
    /\ LET val == Top.values[Top.i]
           ref == Top.assignment
       IN IF is_consistent(Top.var, val, heap[ref])
          THEN LET committed == DictSet(heap[ref], Top.var, val)
                   inferences == inference(Top.var, val)
                   merged == Merge(committed, inferences)
                   new == Len(heap) + 1
               IN /\ heap' = Append([heap EXCEPT ![ref] = committed], merged)
                  /\ stack' = Append(
                        [stack EXCEPT ![Len(stack)] =
                            [@ EXCEPT !.assignment = new,
                                      !.inferences = inferences,
                                      !.at = "called"]],
                        Frame(new, merged))
                  /\ UNCHANGED <<result, pc>>
          ELSE IF Top.inferences = "unbound"
          THEN \* `for k in inferences` reads a name that was never bound
               /\ result' = [kind |-> "UnboundLocalError", path |-> <<>>]
               /\ stack' = <<>>
               /\ pc' = "done"
               /\ UNCHANGED heap
          ELSE /\ heap' = [heap EXCEPT ![ref] = DictPop(@, Top.var)]
               /\ stack' = [stack EXCEPT ![Len(stack)] = [@ EXCEPT !.i = @ + 1]]
               /\ UNCHANGED <<result, pc>>
    /\ UNCHANGED <<N, arg, current, cache, n_iter, max_steps, alg>>
    /\ UNCHANGED searchVars

\* lines 240-245 once the called activation has returned
BtAfterCall ==
    /\ pc = "backtrack"
    /\ Returning
    /\ Top.at = "called"
    /\ IF result.kind # "failure"
       THEN /\ stack' = Pop
            /\ pc' = AfterReturn
            /\ UNCHANGED <<result, heap>>
       ELSE /\ heap' = [heap EXCEPT ![Top.assignment] = DictPop(@, Top.var)]
            /\ stack' = [stack EXCEPT ![Len(stack)] =
                            [@ EXCEPT !.i = @ + 1, !.at = "loop"]]
            /\ result' = Pending
            /\ UNCHANGED pc
    /\ UNCHANGED <<N, arg, current, cache, n_iter, max_steps, alg>>
    /\ UNCHANGED searchVars

\* line 246: the loop is over
BtExhausted ==
    /\ pc = "backtrack"
    /\ ~Returning
    /\ Top.at = "loop"
    /\ Top.i > Len(Top.values)
    /\ result' = Failure
    /\ stack' = Pop
    /\ pc' = AfterReturn
    /\ UNCHANGED <<N, arg, heap, current, cache, n_iter, max_steps, alg>>
    /\ UNCHANGED searchVars

(***************************************************************************)
(* The MRV / LCV helpers called as backtrack calls them (lines 228-229) on *)
(* an assignment `arg`.                                                    *)
(***************************************************************************)
\* var, values = self.select_unassigned_variable(assignment)
SelectCall ==
    /\ pc = "select_call"
    /\ LET sel == select_unassigned_variable(N, arg)
       IN result' = [kind |-> "selected", path |-> <<>>,
                     var |-> sel.var, values |-> sel.values]
    /\ pc' = "order_call"
    /\ UNCHANGED <<N, arg, stack, heap, current, cache, n_iter, max_steps, alg>>
    /\ UNCHANGED searchVars

\* self.order_domain_values(var, values, assignment)
OrderCall ==
    /\ pc = "order_call"
    /\ result' = [kind |-> "ordered", path |-> <<>>,
                  var |-> result.var, values |-> result.values,
                  ordered |-> order_domain_values(N, result.var, result.values, arg)]
    /\ pc' = "done"
    /\ UNCHANGED <<N, arg, stack, heap, current, cache, n_iter, max_steps, alg>>
    /\ UNCHANGED searchVars

(***************************************************************************)
(* NQueens.min_conflicts_solver                                            *)
(***************************************************************************)
\* a loop that returns the first value not tried yet, whatever its conflicts
MinConflictsLoop_first_untried(n, var, assignment, values_tried, val, metric, value) ==
    LET untried == {v \in val..(n - 1) :
                      \A i \in 1..Len(values_tried) : values_tried[i] # v}
    IN IF untried = {} THEN value
       ELSE CHOOSE v \in untried : \A w \in untried : v <= w

\* the loop of min_conflicts_val over val, val + 1, ..., N - 1
RECURSIVE MinConflictsLoop(_, _, _, _, _, _, _)
MinConflictsLoop(n, var, assignment, values_tried, val, metric, value) ==
    IF val >= n THEN value
    ELSE IF \A i \in 1..Len(values_tried) : values_tried[i] # val
    THEN LET num == n_conflicts(var, val, assignment)
         IN IF num <= metric
            THEN MinConflictsLoop(n, var, assignment, values_tried, val + 1, num, val)
            ELSE MinConflictsLoop(n, var, assignment, values_tried, val + 1, metric, value)
    ELSE MinConflictsLoop(n, var, assignment, values_tried, val + 1, metric, value)

\* min_conflicts_val with a loop that does not skip the values tried
min_conflicts_val_all_candidates(n, c, var, assignment) ==
    LET got == IF var \in DOMAIN c THEN c[var] ELSE <<>>
        values_tried == IF Len(got) = n THEN <<>> ELSE got
    IN [value |-> MinConflictsLoop(n, var, assignment, <<>>, 0, n, -1),
        cache |-> DictSet(c, var, values_tried)]

\* min_conflicts_val without the reset of a full cache (lines 121-122)
min_conflicts_val_no_reset(n, c, var, assignment) ==
    LET values_tried == IF var \in DOMAIN c THEN c[var] ELSE <<>>
    IN [value |-> MinConflictsLoop(n, var, assignment, values_tried, 0, n, -1),
        cache |-> DictSet(c, var, values_tried)]

\* min_conflicts_val: the value it returns and the cache it leaves
min_conflicts_val(n, c, var, assignment) ==
    LET got == IF var \in DOMAIN c THEN c[var] ELSE <<>>
        values_tried == IF Len(got) = n THEN <<>> ELSE got
    IN [value |-> MinConflictsLoop(n, var, assignment, values_tried, 0, n, -1),
        cache |-> DictSet(c, var, values_tried)]

\* the loop body of min_conflicts_solver with a loop that never counts its
\* iterations (`while True`)
McIter_uncounted ==
    /\ pc = "min_conflicts"
    /\ n_iter < max_steps
    /\ IF is_solution(N, current)
       THEN /\ result' = [kind |-> "assignment", path |-> <<>>,
                          assignment |-> current]
            /\ pc' = "done"
            /\ UNCHANGED <<current, cache, n_iter>>
       ELSE \E var \in conflicted_vars(current) :
               LET r == min_conflicts_val(N, cache, var, current)
               IN /\ current' = DictSet(current, var, r.value)
                  /\ cache' = DictSet(r.cache, var, Append(r.cache[var], r.value))
                  /\ UNCHANGED <<n_iter, result, pc>>
    /\ UNCHANGED <<N, arg, stack, heap, max_steps, alg>>
    /\ UNCHANGED searchVars

\* the loop body of min_conflicts_solver without the append of line 143
McIter_unrecorded ==
    /\ pc = "min_conflicts"
    /\ n_iter < max_steps
    /\ IF is_solution(N, current)
       THEN /\ result' = [kind |-> "assignment", path |-> <<>>,
                          assignment |-> current]
            /\ pc' = "done"
            /\ UNCHANGED <<current, cache, n_iter>>
       ELSE \E var \in conflicted_vars(current) :
               LET r == min_conflicts_val(N, cache, var, current)
               IN /\ current' = DictSet(current, var, r.value)
                  /\ cache' = r.cache
                  /\ n_iter' = n_iter + 1
                  /\ UNCHANGED <<result, pc>>
    /\ UNCHANGED <<N, arg, stack, heap, max_steps, alg>>
    /\ UNCHANGED searchVars

\* one iteration of `for n_iter in range(max_steps)`
McIter ==
    /\ pc = "min_conflicts"
    /\ n_iter < max_steps
    /\ IF is_solution(N, current)
       THEN /\ result' = [kind |-> "assignment", path |-> <<>>,
                          assignment |-> current]
            /\ pc' = "done"
            /\ UNCHANGED <<current, cache, n_iter>>
       ELSE \E var \in conflicted_vars(current) :
               LET r == min_conflicts_val(N, cache, var, current)
               IN /\ current' = DictSet(current, var, r.value)
                  /\ cache' = DictSet(r.cache, var, Append(r.cache[var], r.value))
                  /\ n_iter' = n_iter + 1
                  /\ UNCHANGED <<result, pc>>
    /\ UNCHANGED <<N, arg, stack, heap, max_steps, alg>>
    /\ UNCHANGED searchVars

\* line 144: the loop ended without a return
McFail ==
    /\ pc = "min_conflicts"
    /\ n_iter = max_steps
    /\ result' = [kind |-> "failed_after", path |-> <<>>, assignment |-> current]
    /\ pc' = "done"
    /\ UNCHANGED <<N, arg, stack, heap, current, cache, n_iter, max_steps, alg>>
    /\ UNCHANGED searchVars

(***************************************************************************)
(* Problem.result called through Node.child_node on a root node            *)
(***************************************************************************)
ResultCall ==
    /\ pc = "result_call"
    /\ \E i \in 1..Len(actions(problem.start)) :
          node' = child_node(Node(problem.start, <<>>, None, 0), problem,
                             actions(problem.start)[i])
    /\ pc' = "done"
    /\ UNCHANGED <<alg, problem, heuristic, frontier, explored, depth, estimate, result,
                   taken, runs>>
    /\ UNCHANGED cspVars

(***************************************************************************)
(* Problem.h called on its own                                             *)
(***************************************************************************)
HCall ==
    /\ pc = "h_call"
    /\ estimate' = h(problem, problem.start, heuristic)
    /\ pc' = "done"
    /\ UNCHANGED <<alg, problem, heuristic, node, frontier, explored, depth, result,
                   taken, runs>>
    /\ UNCHANGED cspVars

(***************************************************************************)
(* The problems the searches are run on.                                   *)
(***************************************************************************)
Goal8 == <<1, 2, 3, 4, 5, 6, 7, 8, 0>>
GoalCentre == <<1, 2, 3, 8, 0, 4, 7, 6, 5>>
Goals == {Goal8, GoalCentre}

\* the start of the notebook's test cell, 8 moves from Goal8
TestStart == <<2, 4, 3, 1, 5, 6, 7, 8, 0>>
\* starts 7, 11 and 12 moves from Goal8
Start7 == <<2, 4, 3, 0, 1, 6, 7, 5, 8>>
Start11 == <<5, 1, 3, 2, 7, 0, 4, 8, 6>>
Start12 == <<5, 1, 0, 6, 3, 2, 4, 7, 8>>
\* Goal8 with two tiles exchanged: the goal cannot be reached from it
StartOdd == <<2, 1, 3, 4, 5, 6, 7, 8, 0>>

\* the states one legal move from a state of W
Moves(W) ==
    {result_of(t, At(actions(t), i)) :
        <<t, i>> \in {<<t, i>> \in W \X (0..3) : i < Len(actions(t))}}

\* the states at most k legal moves from s
RECURSIVE Within(_, _)
Within(s, k) == IF k = 0 THEN {s} ELSE LET W == Within(s, k - 1) IN W \cup Moves(W)

Problems ==
    UNION {{[start |-> s, goal |-> g] : s \in Within(g, MaxScramble)} : g \in Goals}
    \cup {[start |-> s, goal |-> Goal8] :
            s \in {TestStart, Start7, Start11, Start12, StartOdd}}

Heuristics == {None, "manhattan_distance", "zero", "tile_manhattan", "gated_manhattan"}

CspIdle ==
    /\ N = 0
    /\ arg = <<>>
    /\ stack = <<>>
    /\ heap = <<>>
    /\ current = <<>>
    /\ cache = <<>>
    /\ n_iter = 0
    /\ max_steps = 0

SearchIdle ==
    /\ node = None
    /\ frontier = <<>>
    /\ explored = {}
    /\ depth = 0
    /\ estimate = 0
    /\ taken = <<>>
    /\ runs = <<>>
    /\ result = Pending

InitBFS ==
    /\ alg = "breadth_first_search"
    /\ problem \in Problems
    /\ heuristic = None
    /\ pc = "bfs_start"
    /\ SearchIdle
    /\ CspIdle

NextBFS == BfsStart \/ BfsLoop \/ BfsFail

SpecBFS == InitBFS /\ [][NextBFS]_vars

InitIDS ==
    /\ alg = "iterative_deepening_search"
    /\ problem \in Problems
    /\ heuristic = None
    /\ pc = "ids_loop"
    /\ SearchIdle
    /\ CspIdle

NextIDS == IdsIter \/ IdsFallThrough

SpecIDS == InitIDS /\ [][NextIDS]_vars

InitAstar ==
    /\ alg = "astar_search"
    /\ problem \in Problems
    /\ heuristic \in Heuristics
    /\ pc = "astar_start"
    /\ SearchIdle
    /\ CspIdle

NextAstar == AstarStart \/ AstarLoop \/ AstarFail

SpecAstar == InitAstar /\ [][NextAstar]_vars

\* depth_limited_search called with every limit up to MaxLimit
InitDLS ==
    /\ alg = "depth_limited_search"
    /\ problem \in Problems
    /\ heuristic = None
    /\ pc = "dls_call"
    /\ node = None
    /\ frontier = <<>>
    /\ explored = {}
    /\ depth \in 0..MaxLimit
    /\ estimate = 0
    /\ taken = <<>>
    /\ runs = <<>>
    /\ result = Pending
    /\ CspIdle

NextDLS == DlsCall

SpecDLS == InitDLS /\ [][NextDLS]_vars

\* Problem.result applied to every start of the model, with every action
\* Problem.actions offers there
InitResult ==
    /\ alg = "result"
    /\ problem \in Problems
    /\ heuristic = None
    /\ pc = "result_call"
    /\ SearchIdle
    /\ CspIdle

NextResult == ResultCall

SpecResult == InitResult /\ [][NextResult]_vars

\* the three solvers, each on every problem
InitSearch == InitBFS \/ InitIDS \/ InitAstar

NextSearch == NextBFS \/ NextIDS \/ NextAstar

SpecSearch == InitSearch /\ [][NextSearch]_vars

InitH ==
    /\ alg = "h"
    /\ problem \in Problems
    /\ heuristic \in Heuristics
    /\ pc = "h_call"
    /\ SearchIdle
    /\ CspIdle

NextH == HCall

SpecH == InitH /\ [][NextH]_vars

\* the assignments the outermost backtrack call is given: the empty one and
\* those of a single row of the n-board
FirstAssignments(n) ==
    {EmptyDict} \cup {DictSet(EmptyDict, r, c) : <<r, c>> \in (0..(n - 1)) \X (0..(n - 1))}

SearchUnused ==
    /\ problem = [start |-> <<>>, goal |-> <<>>]
    /\ heuristic = None
    /\ SearchIdle

InitBT ==
    /\ alg = "backtrack"
    /\ N \in 1..MaxQueens
    /\ arg \in FirstAssignments(N)
    /\ heap = <<arg>>
    /\ stack = <<Frame(1, arg)>>
    /\ current = <<>>
    /\ cache = <<>>
    /\ n_iter = 0
    /\ max_steps = 0
    /\ pc = "backtrack"
    /\ SearchUnused

NextBT == BtEnter \/ BtTry \/ BtAfterCall \/ BtExhausted

SpecBT == InitBT /\ [][NextBT]_vars

\* the assignments of some, not all, rows of the n-board
PartialAssignments(n) ==
    UNION {[D -> 0..(n - 1)] : D \in (SUBSET (0..(n - 1))) \ {0..(n - 1)}}

InitPick ==
    /\ alg = "select_unassigned_variable"
    /\ N \in 1..MaxPick
    /\ arg \in PartialAssignments(N)
    /\ heap = <<>>
    /\ stack = <<>>
    /\ current = <<>>
    /\ cache = <<>>
    /\ n_iter = 0
    /\ max_steps = 0
    /\ pc = "select_call"
    /\ SearchUnused

NextPick == SelectCall \/ OrderCall

SpecPick == InitPick /\ [][NextPick]_vars

\* an activation of backtrack is executing: one of lines 227-246 is next
BtRunning == pc = "backtrack"

\* backtrack as a running call: Python goes on executing until the outermost
\* call returns.  This is WF_vars(NextBT) with ENABLED <<NextBT>>_vars
\* written out as BtRunning.
SpecBTFair == SpecBT /\ ([]<>(~BtRunning) \/ []<><<NextBT>>_vars)

\* NQueens.__init__ followed by the call of min_conflicts_solver
InitMC ==
    /\ alg = "min_conflicts_solver"
    /\ N \in 1..MaxBoard
    /\ current \in [0..(N - 1) -> 0..(N - 1)]
    /\ cache = [k \in 0..(N - 1) |-> <<current[k]>>]
    /\ n_iter = 0
    /\ max_steps = MaxSteps
    /\ arg = <<>>
    /\ stack = <<>>
    /\ heap = <<>>
    /\ pc = "min_conflicts"
    /\ SearchUnused

NextMC == McIter \/ McFail

SpecMC == InitMC /\ [][NextMC]_vars

\* min_conflicts_solver as a running call: Python goes on executing the loop
\* until the function returns
SpecMCFair == SpecMC /\ WF_vars(NextMC)

(***************************************************************************)
(* The test cells: the solvers are called one after the other on the same  *)
(* puzzle.                                                                 *)
(***************************************************************************)
\* the calls, in the order of the cells; the last one passes a heuristic
\* that is 0 everywhere
Cells ==
    << [alg |-> "breadth_first_search", heuristic |-> None],
       [alg |-> "iterative_deepening_search", heuristic |-> None],
       [alg |-> "astar_search", heuristic |-> None],
       [alg |-> "astar_search", heuristic |-> "manhattan_distance"],
       [alg |-> "astar_search", heuristic |-> "zero"] >>

\* where a solver starts
StartPc(a) ==
    CASE a = "breadth_first_search" -> "bfs_start"
      [] a = "iterative_deepening_search" -> "ids_loop"
      [] a = "astar_search" -> "astar_start"

\* what a finished call leaves behind: its result, the size of `explored`
\* (the number the solver prints) and the states it took from the frontier
Finished ==
    [alg |-> alg, heuristic |-> heuristic, result |-> result,
     explored |-> Cardinality(explored),
     taken |-> [i \in 1..Len(taken) |-> taken[i].state]]

\* a cell has returned: the next cell calls its solver on the same puzzle
NextCell ==
    /\ pc = "done"
    /\ Len(runs) < Len(Cells)
    /\ runs' = Append(runs, Finished)
    /\ IF Len(runs) + 1 < Len(Cells)
       THEN LET call == Cells[Len(runs) + 2]
            IN /\ alg' = call.alg
               /\ heuristic' = call.heuristic
               /\ pc' = StartPc(call.alg)
               /\ node' = None
               /\ frontier' = <<>>
               /\ explored' = {}
               /\ depth' = 0
               /\ taken' = <<>>
               /\ result' = Pending
       ELSE /\ pc' = "end"
            /\ UNCHANGED <<alg, heuristic, node, frontier, explored, depth, taken,
                           result>>
    /\ UNCHANGED <<problem, estimate>>
    /\ UNCHANGED cspVars

InitCells == InitBFS

NextCells == NextBFS \/ NextIDS \/ NextAstar \/ NextCell

SpecCells == InitCells /\ [][NextCells]_vars

\* the finished calls of solver a with heuristic func
RunsOf(a, func) ==
    {runs[i] : i \in {i \in 1..Len(runs) :
                        runs[i].alg = a /\ runs[i].heuristic = func}}

(***************************************************************************)
(* Properties of the searches.                                             *)
(***************************************************************************)
\* a solver has returned a path
Returned == pc = "done" /\ result.kind = "path"

\* the number of actions of a returned path (its first node is the root)
NumActions == Len(result.path) - 1

\* no sequence of fewer than n legal actions leads from state s to state g
NoShorterPath(s, g, n) == n <= 0 \/ g \notin Within(s, n - 1)

\* C1: whenever breadth_first_search returns a path, no sequence of legal
\* actions leads from problem.start to problem.goal in fewer steps than the
\* path has actions.
C1_BfsPathIsShortest ==
    (alg = "breadth_first_search" /\ Returned)
        => /\ result.path[Len(result.path)].state = problem.goal
           /\ NoShorterPath(problem.start, problem.goal, NumActions)

\* breadth_first_search returned a path as long as its depth bound allows
C1_Witness ==
    alg = "breadth_first_search" /\ Returned /\ NumActions = MaxDepth + 1

\* the heuristics of the model that never overestimate the moves still needed
AdmissibleHeuristics == {"zero", "tile_manhattan", "gated_manhattan"}

\* C2: with a heuristic that never overestimates the remaining moves,
\* whenever astar_search returns a path, no path from start to goal has
\* fewer actions.
C2_AdmissibleAstarPathIsShortest ==
    (alg = "astar_search" /\ heuristic \in AdmissibleHeuristics /\ Returned)
        => NoShorterPath(problem.start, problem.goal, NumActions)

\* C3: the default heuristic Problem.h(state) is at most the minimum number
\* of moves from state to the goal.
C3_DefaultHeuristicAdmissible ==
    (alg = "h" /\ heuristic = None /\ pc = "done")
        => NoShorterPath(problem.start, problem.goal, estimate)

\* C4: astar_search with the default heuristic returns, whenever it returns
\* a path, a path with as many actions as the shortest path from start to
\* goal.
C4_AstarDefaultPathIsShortest ==
    (alg = "astar_search" /\ heuristic = None /\ Returned)
        => /\ result.path[Len(result.path)].state = problem.goal
           /\ NoShorterPath(problem.start, problem.goal, NumActions)

\* astar_search returned a path from a start whose default estimate is
\* larger than the number of actions of that path
C4_Witness ==
    /\ alg = "astar_search" /\ heuristic = None /\ Returned
    /\ NumActions >= 1
    /\ h(problem, problem.start, None) > NumActions

\* C5: whenever iterative_deepening_search returns a path, no sequence of
\* legal actions leads from start to goal in fewer steps.
C5_IdsPathIsShortest ==
    (alg = "iterative_deepening_search" /\ Returned)
        => /\ result.path[Len(result.path)].state = problem.goal
           /\ NoShorterPath(problem.start, problem.goal, NumActions)

\* iterative_deepening_search returned the 8-action path of the test cell
C5_Witness ==
    /\ alg = "iterative_deepening_search" /\ Returned
    /\ problem.start = TestStart /\ NumActions = 8

\* the state reached by applying the actions of path[i..] to state s
RECURSIVE Replay(_, _, _)
Replay(s, path, i) ==
    IF i > Len(path) THEN s ELSE Replay(result_of(s, path[i].action), path, i + 1)

ValidPath(p, path) ==
    /\ path # <<>>
    /\ path[1].state = p.start
    /\ path[1].action = None
    /\ path[Len(path)].state = p.goal
    /\ \A i \in 1..(Len(path) - 1) :
          /\ \E k \in 1..Len(actions(path[i].state)) :
                actions(path[i].state)[k] = path[i + 1].action
          /\ result_of(path[i].state, path[i + 1].action) = path[i + 1].state
    /\ Replay(p.start, path, 2) = p.goal

\* C6: every path returned by breadth_first_search, iterative_deepening_search
\* or astar_search (with any heuristic) starts with problem.start and action
\* None, ends with the goal state, and every later node's action is legal in
\* the state before it and leads to that node's state; re-applying the
\* actions from start gives the goal.
C6_ReturnedPathIsValid == Returned => ValidPath(problem, result.path)

\* astar_search returned a path of 9 actions from the start 7 moves from
\* the goal
C6_Witness ==
    /\ Returned /\ alg = "astar_search"
    /\ problem.start = Start7 /\ NumActions = 9

\* the caller's heuristics listed as admissible are so on the problems of
\* the model
AdmissibleHeuristicsSound ==
    (alg = "h" /\ heuristic \in AdmissibleHeuristics /\ pc = "done")
        => NoShorterPath(problem.start, problem.goal, estimate)

(***************************************************************************)
(* Properties of the N-Queens solvers.                                     *)
(***************************************************************************)
\* a queen in every row 0..n-1, in a column 0..n-1, no two of them in one
\* column or on one diagonal
IsPlacement(n, a) ==
    /\ DOMAIN a = 0..(n - 1)
    /\ \A r \in DOMAIN a : a[r] \in 0..(n - 1)
    /\ \A r1, r2 \in DOMAIN a :
          r1 < r2 => a[r1] # a[r2] /\ a[r1] - a[r2] # r1 - r2 /\ a[r1] - a[r2] # r2 - r1

\* the queens of rows 0..r-1 stand in cols without attacking each other and
\* rows r..n-1 can be filled in the same way
RECURSIVE CanComplete(_, _)
CanComplete(n, cols) ==
    LET r == Len(cols)
        free(c) == \A q \in 1..r :
                      cols[q] # c /\ cols[q] - c # (q - 1) - r /\ cols[q] - c # r - (q - 1)
    IN r = n \/ \E c \in 0..(n - 1) : free(c) /\ CanComplete(n, Append(cols, c))

\* an N-Queens solution exists on the n-board
SolutionExists(n) == CanComplete(n, <<>>)

BacktrackDone == alg = "backtrack" /\ pc = "done"

\* C7: for every board size N for which an N-Queens solution exists,
\* backtrack({}) returns an assignment and not 'failure'.
C7_BacktrackComplete ==
    (BacktrackDone /\ arg = EmptyDict /\ SolutionExists(N))
        => result.kind = "assignment"

\* C8: whenever backtrack({}) returns an assignment, it has exactly the
\* variables 0..N-1, each with a value in 0..N-1, and no two rows share a
\* column or a diagonal.
C8_BacktrackResultIsSolution ==
    (BacktrackDone /\ arg = EmptyDict /\ result.kind = "assignment")
        => /\ IsPlacement(N, result.assignment)
           /\ conflicted_vars(result.assignment) = {}

\* backtrack({}) returned an assignment for the 8-board of the test cell
C8_Witness ==
    /\ BacktrackDone /\ arg = EmptyDict /\ N = 8
    /\ result.kind = "assignment"

\* C9: backtrack({}) returns 'failure' for N = 2 and N = 3 and {0: 0} for
\* N = 1.
C9_BacktrackSmallBoards ==
    (BacktrackDone /\ arg = EmptyDict)
        => /\ N \in {2, 3} => result.kind = "failure"
           /\ N = 1 => /\ result.kind = "assignment"
                       /\ result.assignment = DictSet(EmptyDict, 0, 0)

\* backtrack({}) returned 'failure' on the 3-board
C9_Witness ==
    BacktrackDone /\ arg = EmptyDict /\ N = 3 /\ result.kind = "failure"

\* C10: whenever min_conflicts_solver returns an assignment, it has exactly
\* N variables and no two rows share a column or a diagonal.
C10_MinConflictsResultIsSolution ==
    (alg = "min_conflicts_solver" /\ pc = "done" /\ result.kind = "assignment")
        => /\ IsPlacement(N, result.assignment)
           /\ Cardinality(DOMAIN result.assignment) = N

\* min_conflicts_solver returned an assignment on the 4-board after it had
\* repaired at least one variable
C10_Witness ==
    /\ alg = "min_conflicts_solver" /\ pc = "done"
    /\ result.kind = "assignment"
    /\ N = 4 /\ n_iter >= 1

\* C11: whenever min_conflicts_solver returns the failure message, the
\* assignment it ends with is not a solution (an assignment that became a
\* solution after a repair step, the last one included, is returned).
C11_FailureOnlyWithoutSolution ==
    (alg = "min_conflicts_solver" /\ pc = "done" /\ result.kind = "failed_after")
        => ~is_solution(N, current)

\* C12: min_conflicts_solver always terminates, with success or with the
\* budget failure, after at most max_steps repair steps, for every initial
\* assignment and every sequence of random choices.
C12_MinConflictsTerminates ==
    /\ [](alg = "min_conflicts_solver" => n_iter <= max_steps)
    /\ <>(alg = "min_conflicts_solver" /\ pc = "done")

\* min_conflicts_solver gave up on the 3-board, which has no solution, after
\* max_steps repair steps
C12_Witness ==
    /\ alg = "min_conflicts_solver" /\ pc = "done"
    /\ N = 3 /\ result.kind = "failed_after" /\ n_iter = max_steps

\* C13: whenever iterative_deepening_search finishes without a path, the
\* value it returns to the caller is 'failure', the value the other solvers
\* return.
C13_IdsReturnsFailure ==
    (alg = "iterative_deepening_search" /\ pc = "done" /\ result.kind # "path")
        => result = Failure

\* C14: for every start/goal pair, iterative_deepening_search returns a path
\* if and only if breadth_first_search returns a path, and then both paths
\* have the same number of actions.
C14_IdsSameBoundAsBfs ==
    \A b \in RunsOf("breadth_first_search", None) :
        \A i \in RunsOf("iterative_deepening_search", None) :
            /\ (b.result.kind = "path") <=> (i.result.kind = "path")
            /\ b.result.kind = "path" => Len(b.result.path) = Len(i.result.path)

\* the running search took a node from its frontier that it did not expand
\* because the node lies beyond the maximum depth
DepthExceeded == \E i \in 1..Len(taken) : taken[i].depth > MaxDepth

\* C15: when breadth_first_search or astar_search ends without a path after
\* it left nodes beyond the maximum depth unexpanded, its result is not the
\* 'failure' it returns when the frontier ran empty with every reachable
\* state expanded.
C15_DepthExceededDistinguished ==
    (/\ alg \in {"breadth_first_search", "astar_search"}
     /\ pc = "done" /\ result.kind # "path"
     /\ DepthExceeded)
        => result # Failure

\* C16: astar_search with a heuristic that is 0 everywhere takes the states
\* from its frontier in the same order as breadth_first_search and returns
\* the same path (same sequence of states and actions).
C16_ZeroAstarEqualsBfs ==
    \A b \in RunsOf("breadth_first_search", None) :
        \A z \in RunsOf("astar_search", "zero") :
            /\ z.taken = b.taken
            /\ z.result.kind = b.result.kind
            /\ Len(z.result.path) = Len(b.result.path)
            /\ \A i \in 1..Len(b.result.path) :
                  /\ z.result.path[i].state = b.result.path[i].state
                  /\ z.result.path[i].action = b.result.path[i].action

\* the calls the test cells make on the puzzle of the notebook
TestRuns ==
    IF problem.start = TestStart /\ problem.goal = Goal8
    THEN {runs[i] : i \in {i \in 1..Len(runs) :
                              runs[i].heuristic \in {None, "manhattan_distance"}}}
    ELSE {}

\* C17: on the puzzle of the test cells, breadth_first_search,
\* iterative_deepening_search, astar_search with the default heuristic and
\* astar_search with manhattan_distance each return a path of 8 actions whose
\* last state is the goal.
C17_TestPuzzleSolved ==
    \A r \in TestRuns :
        /\ r.result.kind = "path"
        /\ Len(r.result.path) - 1 = 8
        /\ r.result.path[Len(r.result.path)].state = Goal8

\* the four calls of the test cells have returned
C17_Witness ==
    /\ Cardinality(TestRuns) = 4
    /\ \A r \in TestRuns : r.result.kind = "path"

\* C18: on the puzzle of the test cells, the size of `explored` when the
\* goal is found satisfies astar_search with manhattan_distance <=
\* astar_search with the default heuristic <= breadth_first_search.
C18_ExploredOrdering ==
    \A b \in {r \in TestRuns : r.alg = "breadth_first_search"} :
        \A d \in {r \in TestRuns : r.alg = "astar_search" /\ r.heuristic = None} :
            /\ d.explored <= b.explored
            /\ \A m \in {r \in TestRuns : r.heuristic = "manhattan_distance"} :
                    m.explored <= d.explored

\* the three calls printed 117, 21 and 17, as in the notebook
C18_Witness ==
    /\ \E r \in TestRuns : r.alg = "breadth_first_search" /\ r.explored = 117
    /\ \E r \in TestRuns : /\ r.alg = "astar_search" /\ r.heuristic = None
                            /\ r.explored = 21
    /\ \E r \in TestRuns : r.heuristic = "manhattan_distance" /\ r.explored = 17

(***************************************************************************)
(* Properties of backtrack's bookkeeping.                                  *)
(***************************************************************************)
\* the running activation has had a recursive call fail and is about to try
\* its next candidate value
NextCandidateAfterFailure ==
    /\ alg = "backtrack" /\ pc = "backtrack" /\ ~Returning
    /\ Top.at = "loop"
    /\ Top.inferences # "unbound"
    /\ Top.i <= Len(Top.values)

\* C19: inside one backtrack call, after a candidate's subtree has failed,
\* the assignment the next candidate is checked against holds exactly the
\* variables and values the assignment had when the call was entered.
C19_CommitmentUndone ==
    NextCandidateAfterFailure => heap[Top.assignment] = Top.entry

\* the dict object the running activation was called with: the argument of
\* the outermost call, else the dict its caller is bound to
Passed == IF Len(stack) = 1 THEN 1 ELSE stack[Len(stack) - 1].assignment

\* the running activation has tried all its values and is about to return
\* 'failure'
AboutToFail ==
    /\ alg = "backtrack" /\ pc = "backtrack" /\ ~Returning
    /\ Top.at = "loop"
    /\ Top.i > Len(Top.values)

\* C20: when backtrack(assignment) returns 'failure', the mapping the caller
\* passed in holds exactly the variable/value pairs it held before the call.
C20_FailureLeavesArgumentUnchanged ==
    AboutToFail => heap[Passed] = Top.entry

(***************************************************************************)
(* Properties of the frontier and the explored set.                        *)
(***************************************************************************)
\* C21: every node astar_search removes from the frontier has an f value
\* less than or equal to the f value of every node that remains in the
\* frontier at that moment.
C21_PoppedHasMinimumF ==
    (alg = "astar_search" /\ pc = "astar_loop" /\ frontier # <<>>)
        => LET popped == heappop(frontier)
           IN \A i \in 1..Len(popped.rest) : popped.item.f <= popped.rest[i].f

\* the positions of the list fr that hold a node of state s
Entries(fr, s) == {i \in 1..Len(fr) : fr[i].state = s}

\* the frontier of astar_search holds at most one node per state
OneNodePerState ==
    alg = "astar_search"
        => \A i, j \in 1..Len(frontier) :
              frontier[i].state = frontier[j].state => i = j

\* an iteration of astar_search's loop that expands the node it takes: for
\* every child whose state was in the frontier, the frontier afterwards holds
\* one node of that state, the child if its f is strictly lower than the
\* entry's, else the entry
ReplacementKeepsLowest ==
    (/\ alg = "astar_search" /\ pc = "astar_loop" /\ frontier # <<>>
     /\ ~is_goal_state(problem, heappop(frontier).item.state)
     /\ heappop(frontier).item.depth <= MaxDepth)
        => LET popped == heappop(frontier)
               acts == actions(popped.item.state)
           IN \A a \in 1..Len(acts) :
                LET child == AstarChild(problem, heuristic, popped.item, acts[a])
                    old == Entries(popped.rest, child.state)
                IN old # {}
                    => \A o \in old :
                         \A e \in Entries(frontier', child.state) :
                            /\ Cardinality(Entries(frontier', child.state)) = 1
                            /\ frontier'[e] = IF child.f < popped.rest[o].f
                                              THEN child ELSE popped.rest[o]

\* C22: in astar_search, a child whose state is in the frontier with a
\* strictly higher f replaces that entry; the frontier holds at most one node
\* per state, and it is the one of lowest f generated for the state since the
\* state entered the frontier.
C22_FrontierKeepsCheapestPerState ==
    [][ReplacementKeepsLowest]_vars /\ []OneNodePerState

\* the last iteration replaced an entry: a state next to a state expanded
\* earlier (so it has been in the frontier since) is now in the frontier as a
\* child of the node just expanded
C22_Witness ==
    /\ alg = "astar_search" /\ pc = "astar_loop"
    /\ \E i \in 1..Len(frontier) :
          /\ frontier[i].parent = <<node>>
          /\ \E k \in 1..(Len(taken) - 1) :
                /\ taken[k].depth <= MaxDepth
                /\ frontier[i].state \in Moves({taken[k].state})

\* C23: in every path a solver returns, depth is 0 at the root and
\* parent.depth + 1 below it, and path_cost is the cost accumulated from the
\* root (0 at the root, parent cost + 1 below it), so path_cost = depth.
C23_PathCostEqualsDepth ==
    Returned
        => \A i \in 1..Len(result.path) :
              /\ result.path[i].depth = i - 1
              /\ result.path[i].path_cost = result.path[i].depth

\* C24: in a run of breadth_first_search or astar_search no state is taken
\* from the frontier for expansion twice (the state taken last was never
\* taken before), and no state of the explored set is in the frontier at the
\* top of a loop iteration (so an explored state is never inserted again).
C24_NoReExpansion ==
    (alg \in {"breadth_first_search", "astar_search"})
        => /\ \A i \in 1..(Len(taken) - 1) :
                 taken[i].state # taken[Len(taken)].state
           /\ \A i \in 1..Len(frontier) : frontier[i].state \notin explored

\* a search has just expanded a node next to an explored state, and goes on
C24_Witness ==
    /\ alg \in {"breadth_first_search", "astar_search"}
    /\ pc \in {"bfs_loop", "astar_loop"}
    /\ frontier # <<>>
    /\ Len(taken) >= 2
    /\ node.state \in explored
    /\ Moves({node.state}) \cap (explored \ {node.state}) # {}

\* the states exactly k legal moves from s (along any sequence of k actions)
RECURSIVE Exactly(_, _)
Exactly(s, k) == IF k = 0 THEN {s} ELSE Moves(Exactly(s, k - 1))

\* C25: depth_limited_search(problem, L) returns a path if and only if the
\* goal is reachable from start in at most L actions, and the path has at most
\* L actions; otherwise it returns 'cutoff' when a branch was stopped by the
\* limit and 'failure' only when none was.
C25_DepthLimitedSearch ==
    (alg = "depth_limited_search" /\ pc = "done")
        => /\ (result.kind = "path") <=> (problem.goal \in Within(problem.start, depth))
           /\ result.kind = "path"
                => /\ NumActions <= depth
                   /\ result.path[Len(result.path)].state = problem.goal
           /\ result.kind # "path"
                => result = IF Exactly(problem.start, depth) # {} THEN Cutoff
                            ELSE Failure

\* depth_limited_search returned a path that uses the whole limit although
\* the goal is nearer
C25_Witness ==
    /\ alg = "depth_limited_search" /\ Returned
    /\ NumActions = depth
    /\ ~NoShorterPath(problem.start, problem.goal, NumActions)

\* C26: breadth_first_search and astar_search expand a node only if its
\* depth is at most 10, so their frontier holds no node deeper than 11 and
\* no path they return has more than 11 actions; no path
\* iterative_deepening_search returns has more than 9 actions.
C26_DepthBounds ==
    /\ alg \in {"breadth_first_search", "astar_search"}
         => /\ \A i \in 1..Len(frontier) : frontier[i].depth <= 11
            /\ Returned => NumActions <= 11
    /\ (alg = "iterative_deepening_search" /\ Returned) => NumActions <= 9

\* a search took a node of depth 11 from its frontier and left it unexpanded
C26_Witness ==
    /\ alg \in {"breadth_first_search", "astar_search"}
    /\ pc \in {"bfs_loop", "astar_loop"}
    /\ taken # <<>>
    /\ node.depth = 11
    /\ \A i \in 1..Len(frontier) : frontier[i].parent # <<node>>

(***************************************************************************)
(* Properties of the board moves.                                          *)
(***************************************************************************)
\* the cell next to cell ix (0-based) in the direction of the action, as a
\* <<row, column>> pair that may lie off the board
Neighbour(ix, action) ==
    LET row == ix \div 3
        col == ix % 3
    IN CASE action = "left" -> <<row, col - 1>>
         [] action = "right" -> <<row, col + 1>>
         [] action = "up" -> <<row - 1, col>>
         [] action = "down" -> <<row + 1, col>>

\* C27: for a board state and an action of Problem.actions(state),
\* Problem.result returns a permutation of 0..8 that differs from the state
\* only by the blank and the tile next to it in the action's direction on
\* the board having changed places (no wrap-around across row ends).
C27_ResultSwapsWithNeighbour ==
    (alg = "result" /\ pc = "done")
        => LET s == problem.start
               t == node.state
               ix == Index(s, 0)
               to == Neighbour(ix, node.action)
               cell == 3 * to[1] + to[2]
           IN /\ to[1] \in 0..2 /\ to[2] \in 0..2
              /\ Len(t) = 9
              /\ {t[i] : i \in 1..9} = 0..8
              /\ At(t, cell) = 0
              /\ At(t, ix) = At(s, cell)
              /\ \A i \in 0..8 : i \notin {ix, cell} => At(t, i) = At(s, i)

\* the blank stood in the first cell of the middle row and was moved right
C27_Witness ==
    /\ alg = "result" /\ pc = "done"
    /\ Index(problem.start, 0) = 3
    /\ node.action = "right"

(***************************************************************************)
(* Properties of the MRV / LCV helpers.                                    *)
(***************************************************************************)
\* the rows of the board that arg leaves unassigned
Unassigned == (0..(N - 1)) \ DOMAIN arg

\* the columns a queen of row var can take without sharing a column or a
\* diagonal with a queen of arg
Legal(var) ==
    {v \in 0..(N - 1) :
        \A k \in DOMAIN arg \ {var} : arg[k] # v /\ Abs(k - var) # Abs(arg[k] - v)}

\* select_unassigned_variable has returned
Selected == pc \in {"order_call", "done"} /\ result.kind \in {"selected", "ordered"}

\* C28: select_unassigned_variable returns an unassigned variable whose
\* number of remaining legal values is minimal among the unassigned
\* variables, with exactly the list of its values that are consistent with
\* the assignment.
C28_SelectsMinimumRemainingValues ==
    Selected
        => /\ result.var \in Unassigned
           /\ \A u \in Unassigned :
                 Cardinality(Legal(result.var)) <= Cardinality(Legal(u))
           /\ {result.values[i] : i \in 1..Len(result.values)} = Legal(result.var)
           /\ \A i \in 1..(Len(result.values) - 1) :
                 result.values[i] < result.values[i + 1]

\* a variable was selected on the 4-board while another unassigned variable
\* had more legal values left
C28_Witness ==
    /\ Selected /\ N = 4
    /\ \E u \in Unassigned :
          Cardinality(Legal(u)) > Cardinality(Legal(result.var))

\* C29: when several unassigned variables have the same minimal number of
\* remaining legal values, select_unassigned_variable returns the one with
\* the lowest variable id.
C29_TieBrokenByLowestId ==
    Selected
        => \A u \in Unassigned :
              Cardinality(Legal(u)) = Cardinality(Legal(result.var))
                  => result.var <= u

\* the number of legal values of the neighbouring variable nb that share a
\* column or a diagonal with the queen var: val
RuledOut(var, val, nb) ==
    Cardinality({v \in Legal(nb) : v = val \/ Abs(var - nb) = Abs(val - v)})

\* the count the ordering goes by: over the variables var - 1 and var + 1
\* that are not assigned
RuledOutOfNeighbours(var, val) ==
    LET nbs == {var - 1, var + 1} \cap Unassigned
    IN (IF (var - 1) \in nbs THEN RuledOut(var, val, var - 1) ELSE 0)
       + (IF (var + 1) \in nbs THEN RuledOut(var, val, var + 1) ELSE 0)

\* C30: order_domain_values returns a permutation of the legal values it was
\* given, in non-decreasing order of the number of neighbour values ruled
\* out, counted only over those of var - 1 and var + 1 that are not assigned.
C30_LeastConstrainingValueOrder ==
    (pc = "done" /\ result.kind = "ordered")
        => /\ Len(result.ordered) = Len(result.values)
           /\ {result.ordered[i] : i \in 1..Len(result.ordered)}
                = {result.values[i] : i \in 1..Len(result.values)}
           /\ \A i \in 1..(Len(result.ordered) - 1) :
                 RuledOutOfNeighbours(result.var, result.ordered[i])
                    <= RuledOutOfNeighbours(result.var, result.ordered[i + 1])

(***************************************************************************)
(* Termination and depth of backtrack.                                     *)
(***************************************************************************)
\* the number of variables of an assignment
Size(assignment) == Cardinality(DOMAIN assignment)

\* C31: backtrack({}) terminates, the nesting depth of its recursive calls
\* never exceeds N + 1, and each recursive call receives an assignment with
\* strictly more variables than its caller's assignment had on entry.
C31_BacktrackTerminates ==
    /\ []((alg = "backtrack" /\ arg = EmptyDict)
            => /\ Len(stack) <= N + 1
               /\ \A k \in 2..Len(stack) :
                     Size(stack[k].entry) > Size(stack[k - 1].entry))
    /\ ((alg = "backtrack" /\ arg = EmptyDict) ~> pc = "done")

\* backtrack({}) on the 8-board is several calls deep, and one of the calls
\* has received two variables more than its caller had on entry
C31_Witness ==
    /\ alg = "backtrack" /\ arg = EmptyDict /\ N = 8
    /\ Len(stack) >= 6
    /\ \E k \in 2..Len(stack) :
          Size(stack[k].entry) >= Size(stack[k - 1].entry) + 2

(***************************************************************************)
(* The repair step of min_conflicts_solver.                                *)
(***************************************************************************)
\* the values of a list
Values(list) == {list[i] : i \in 1..Len(list)}

\* the number of rows other than var whose queen, as placed in `current`,
\* shares a column or a diagonal with a queen at row var, column val
Conflicts(var, val) ==
    Cardinality({k \in (0..(N - 1)) \ {var} :
                    \/ current[k] = val
                    \/ Abs(current[k] - val) = Abs(k - var)})

\* the values min_conflicts_val considers for var: those not in the cache of
\* var, and all of them when the cache holds N values
Candidates(var) ==
    IF Len(cache[var]) = N THEN 0..(N - 1)
    ELSE (0..(N - 1)) \ Values(cache[var])

\* the step is a repair step of min_conflicts_solver
RepairStep == alg = "min_conflicts_solver" /\ n_iter' = n_iter + 1

\* the step repairs var: it is the variable whose cache the step writes
Repairs(var) ==
    /\ cache'[var] # cache[var]
    /\ \A k \in (0..(N - 1)) \ {var} :
          cache'[k] = cache[k] /\ current'[k] = current[k]

\* C32: in every repair step of min_conflicts_solver the variable reassigned
\* is conflicted in the assignment before the step, and the value committed
\* to it has the fewest conflicts with the rest of the assignment among the
\* values not excluded by the cache of that variable.
C32_RepairTakesMinimumConflicts ==
    [][RepairStep =>
         \E var \in 0..(N - 1) :
            /\ Repairs(var)
            /\ Conflicts(var, current[var]) > 0
            /\ current'[var] \in Candidates(var)
            /\ \A c \in Candidates(var) :
                  Conflicts(var, current'[var]) <= Conflicts(var, c)]_vars

\* after the first repair on the 4-board: a row holds its second value, and
\* a value that was a candidate has more conflicts than the one committed
C32_Witness ==
    /\ alg = "min_conflicts_solver" /\ N = 4 /\ n_iter = 1
    /\ \E var \in 0..(N - 1) :
          /\ Len(cache[var]) = 2
          /\ cache[var][2] = current[var]
          /\ \E c \in (0..(N - 1)) \ {cache[var][1]} :
                Conflicts(var, c) > Conflicts(var, current[var])

\* C33: when several candidate values of the chosen variable have the same
\* minimal conflict count, min_conflicts_val returns the smallest of them.
C33_TieBrokenBySmallestValue ==
    [][RepairStep =>
         \A var \in 0..(N - 1) :
            Repairs(var) =>
               \A c \in Candidates(var) :
                  Conflicts(var, c) = Conflicts(var, current'[var])
                     => current'[var] <= c]_vars

\* C34: min_conflicts_val never returns a value recorded in the cache of the
\* chosen variable, unless that cache holds all N values: then the cache is
\* emptied and every value 0..N-1 is a candidate again; after each repair
\* step the committed value is recorded in the cache of that variable.
C34_CacheExcludesTriedValues ==
    [][RepairStep =>
         \E var \in 0..(N - 1) :
            /\ Repairs(var)
            /\ IF Len(cache[var]) = N
               THEN /\ cache'[var] = <<current'[var]>>
                    /\ \A c \in 0..(N - 1) :
                          Conflicts(var, current'[var]) <= Conflicts(var, c)
               ELSE /\ current'[var] \notin Values(cache[var])
                    /\ cache'[var] = Append(cache[var], current'[var])]_vars

\* two repairs on the 2-board have left one value in each cache: the second
\* repair found the cache of its row full and emptied it
C34_Witness ==
    /\ alg = "min_conflicts_solver" /\ N = 2 /\ n_iter = 2
    /\ \A k \in 0..(N - 1) : Len(cache[k]) = 1 /\ cache[k][1] = current[k]

(***************************************************************************)
(* manhattan_distance as a heuristic.                                      *)
(***************************************************************************)
\* C35: manhattan_distance(state, goal) is at most the minimum number of
\* moves from state to goal whenever the goal can be reached from state, and
\* it is 0 exactly when state equals goal.
C35_ManhattanAdmissible ==
    (alg = "h" /\ heuristic = "manhattan_distance" /\ pc = "done")
        => /\ \A k \in 0..MaxScramble :
                 problem.goal \in Within(problem.start, k) => estimate <= k
           /\ (estimate = 0) <=> (problem.start = problem.goal)

(***************************************************************************)
(* The assignments backtrack holds.                                        *)
(***************************************************************************)
\* no two variables of the mapping share a column or a diagonal
ConflictFree(a) ==
    \A r1, r2 \in DOMAIN a :
        r1 < r2 => a[r1] # a[r2] /\ a[r1] - a[r2] # r1 - r2 /\ a[r1] - a[r2] # r2 - r1

\* the activation k was given a variable that neither its caller was given
\* nor its caller committed: an earlier call of the caller left it behind
HoldsLeftover(k) ==
    \E v \in DOMAIN stack[k].entry :
        v \notin DOMAIN stack[k - 1].entry /\ v # stack[k - 1].var

\* C36: every assignment mapping that backtrack holds at any point of a run,
\* or passes to a recursive call, is pairwise conflict-free, the variables
\* left by an earlier recursive call included.
C36_AssignmentsConflictFree ==
    alg = "backtrack"
        => /\ \A i \in 1..Len(heap) : ConflictFree(heap[i])
           /\ \A k \in 1..Len(stack) :
                 ConflictFree(stack[k].entry) /\ ConflictFree(heap[stack[k].assignment])

\* backtrack({}) on the 6-board has called itself on an assignment that holds
\* a variable left by an earlier recursive call
C36_Witness ==
    /\ alg = "backtrack" /\ arg = EmptyDict /\ N = 6
    /\ \E k \in 2..Len(stack) : stack[k].at = "enter" /\ HoldsLeftover(k)

(***************************************************************************)
(* The assignment and the caches of min_conflicts_solver.                  *)
(***************************************************************************)
\* C37: throughout min_conflicts_solver the assignment has exactly the N
\* variables 0..N-1, each with a value in 0..N-1 (so min_conflicts_val never
\* returned -1), and whenever the assignment is not a solution the set of
\* conflicted variables the solver picks from is not empty.
C37_AssignmentCompleteInRange ==
    alg = "min_conflicts_solver"
        => /\ DOMAIN current = 0..(N - 1)
           /\ \A k \in DOMAIN current : current[k] \in 0..(N - 1)
           /\ ~IsPlacement(N, current) => conflicted_vars(current) # {}
           /\ result.kind \in {"assignment", "failed_after"}
                 => /\ DOMAIN result.assignment = 0..(N - 1)
                    /\ \A k \in 0..(N - 1) : result.assignment[k] \in 0..(N - 1)

\* three repairs on the 4-board, one of them of a row whose only untried
\* value was left, and the assignment is still not a solution
C37_Witness ==
    /\ alg = "min_conflicts_solver" /\ N = 4 /\ n_iter = 3
    /\ \E k \in 0..(N - 1) : Len(cache[k]) = 4
    /\ ~IsPlacement(N, current)

\* C38: at the top of every min_conflicts_solver iteration the cache of each
\* variable holds between 1 and N values without duplicates and contains the
\* current value of that variable; hence a repair step changes the value of
\* the chosen variable unless its cache held all N values and was reset in
\* that step.
C38_CacheHoldsCurrentValue ==
    /\ [](alg = "min_conflicts_solver"
            => \A k \in 0..(N - 1) :
                  /\ Len(cache[k]) \in 1..N
                  /\ Cardinality(Values(cache[k])) = Len(cache[k])
                  /\ current[k] \in Values(cache[k]))
    /\ [][RepairStep =>
            \A var \in 0..(N - 1) :
               (Repairs(var) /\ Len(cache[var]) < N) => current'[var] # current[var]]_vars

\* three repairs of one row of the 3-board: the third found the cache of the
\* row full, emptied it and recorded the value it committed
C38_Witness ==
    /\ alg = "min_conflicts_solver" /\ N = 3 /\ n_iter = 3
    /\ \E k \in 0..(N - 1) :
          /\ cache[k] = <<current[k]>>
          /\ \A j \in (0..(N - 1)) \ {k} : Len(cache[j]) = 1

====
